---- MODULE Spec2Model ----
(***************************************************************************)
(* A model of matgl's MEGNet (src/matgl/models/megnet.py) and of the       *)
(* structure-to-graph converter (src/matgl/graph/converters.py).           *)
(*                                                                         *)
(* Three specifications share the variables:                               *)
(*   Spec         the calls a caller makes: the constructor, as_dict,      *)
(*                from_dict, from_dir and load, the converter and the      *)
(*                calculator;                                              *)
(*   SpecForward  the constructor and MEGNet.forward, stage by stage;      *)
(*   SpecGraph    GraphConverter.get_graph_from_processed_structure and    *)
(*                MEGNetCalculator.forward's reads of the graph, alone.    *)
(* A behaviour follows one caller: it starts by constructing a model, by   *)
(* loading one or by converting a structure, and goes on from there.       *)
(*                                                                         *)
(* Python values: None is the empty tuple and a present optional value v   *)
(* is <<v>>; a dict is a function from its keys; a list is a sequence; a   *)
(* dropout probability is counted in tenths.                               *)
(***************************************************************************)
EXTENDS Integers, Sequences, FiniteSets, TLC

VARIABLES
    op,           \* the operation that ran last
    err,          \* its outcome: "ok", or the exception it raised
    ctor_in,      \* the arguments of the last direct constructor call
    model,        \* the MEGNet object the caller constructed (None, or <<object>>)
    saved,        \* the dict returned by as_dict (None, or <<dict>>)
    loaded,       \* the MEGNet object returned by from_dict / load
    env,          \* what the last call observed of its environment
    loaded_from,  \* the directory from_dir was called with (None, or <<path>>)
    pc,           \* MEGNet.forward: the position in the method
    trace,        \* MEGNet.forward: the stages run so far, in order
    graph,        \* MEGNet.forward: the graph variable (the transformations applied)
    feat,         \* MEGNet.forward: the widths of edge_feat, node_feat, graph_attr
    vec,          \* MEGNet.forward: the width of vec (0 before the hstack)
    blk,          \* MEGNet.forward: the loop index i
    entered,      \* MEGNet.forward: the feature widths each block was called with
    conv_in,      \* the converter's last arguments
    g,            \* the graph the converter returned (None, or <<graph>>)
    state_attr    \* the state_attr the converter returned (None, or <<list>>)

vars == <<op, err, ctor_in, model, saved, loaded, env, loaded_from,
          pc, trace, graph, feat, vec, blk, entered, conv_in, g, state_attr>>
lifeVars == <<ctor_in, model, saved, loaded, env, loaded_from>>
fwdVars == <<pc, trace, graph, feat, vec, blk, entered>>
convVars == <<conv_in, g, state_attr>>

(***************************************************************************)
(* Bounds of the model.                                                    *)
(***************************************************************************)
MaxBlocks == 2      \* num_blocks ranges over 0..MaxBlocks
MaxLen == 2         \* hiddens and conv_hiddens have at most MaxLen entries
MaxWeight == 1      \* parameter tensors take the values 0..MaxWeight
EmbDim == 4         \* node_embedding_dim and edge_embedding_dim of every call
MaxSites == 2       \* a structure has at most MaxSites sites
MaxBonds == 2       \* a bond list has at most MaxBonds bonds

Widths == {2, 3}
Weights == 0..MaxWeight
HiddenLists == UNION {[1..n -> Widths] : n \in 0..MaxLen}

None == <<>>
Some(x) == <<x>>
Last(s) == s[Len(s)]
Merge(p, q) == [k \in DOMAIN p \cup DOMAIN q |-> IF k \in DOMAIN q THEN q[k] ELSE p[k]]

(***************************************************************************)
(* MEGNet.__init__                                                         *)
(***************************************************************************)
NamedParams ==
    {"node_embedding_dim", "edge_embedding_dim", "attr_embedding_dim", "num_blocks",
     "hiddens", "conv_hiddens", "s2s_num_layers", "s2s_num_iters", "output_hiddens",
     "act", "is_classification", "node_embed", "edge_embed", "attr_embed",
     "include_states", "dropout", "graph_transformations", "element_types", "cutoff",
     "data_mean", "data_std", "device"}

Acts == {"swish", "sigmoid", "tanh", "softplus2", "relu"}
Dropouts == {None, Some(0), Some(5)}
ExtraKeys == {"note"}
KwargSets == {[k \in S |-> "x"] : S \in SUBSET ExtraKeys}
\* graph_transformations: None, or a list of k transformations numbered 1..k
GraphTransformLists == {None} \cup {Some([j \in 1..k |-> j]) : k \in 0..MaxBlocks}

\* locals() at line 81: the parameters, self, __class__ (the method uses super()) and kwargs
LocalsOf(named, kwargs) ==
    [k \in NamedParams \cup {"self", "__class__", "kwargs"} |->
        IF k \in NamedParams THEN named[k]
        ELSE IF k = "kwargs" THEN kwargs
        ELSE k]

\* lines 81-82
ModelArgsOf(named, kwargs) ==
    LET loc == LocalsOf(named, kwargs)
        kept == [k \in DOMAIN loc \ {"self", "__class__", "kwargs"} |-> loc[k]]
    IN  Merge(kept, kwargs)

ActivationLoose(act) ==
    CASE act = "swish" -> Some("SiLU")
      [] act = "sigmoid" -> Some("Sigmoid")
      [] act = "tanh" -> Some("Tanh")
      [] OTHER -> Some("SoftPlus2")

\* lines 103-112: None stands for the raise
ActivationOf(act) ==
    CASE act = "swish" -> Some("SiLU")
      [] act = "sigmoid" -> Some("Sigmoid")
      [] act = "tanh" -> Some("Tanh")
      [] act = "softplus2" -> Some("SoftPlus2")
      [] OTHER -> None

\* Python truth of an optional number / an optional list
Truthy(x) == x # None /\ x[1] # 0
TruthyList(x) == x # None /\ Len(x[1]) > 0

DropoutAlways(dropout) == IF dropout # None THEN dropout ELSE None

\* line 148
DropoutOf(dropout) == IF Truthy(dropout) THEN dropout ELSE None

\* line 152; 0 is Identity()
GraphTransformationsOf(gt, num_blocks) ==
    IF TruthyList(gt) THEN gt[1] ELSE [j \in 1..num_blocks |-> 0]

\* lines 127-134: the dims of each MEGNetBlock
BlocksOf(num_blocks, hiddens, blocks_in_dim, block_out_dim) ==
    <<  <<blocks_in_dim>>  >> \o [j \in 1..(num_blocks - 1) |-> <<block_out_dim>> \o hiddens]

OutputProjInNarrow(block_out_dim) == 2 * block_out_dim + block_out_dim

\* line 142
OutputProjIn(block_out_dim) == 2 * 2 * block_out_dim + block_out_dim

\* the keys of state_dict(): one per parameterised submodule
StateKeys(nblocks) ==
    {<<n, 0>> : n \in {"edge_encoder", "node_encoder", "attr_encoder",
                         "edge_s2s", "node_s2s", "output_proj"}}
    \cup {<<"blocks", j - 1>> : j \in 1..nblocks}

\* lines 60-153; w0 is the value the parameters are initialised to
MEGNetInit(named, kwargs, w0) ==
    LET activation == ActivationOf(named["act"])
        hiddens == named["hiddens"]
        conv_hiddens == named["conv_hiddens"]
    IN  IF activation = None THEN [err |-> "Exception", obj |-> None]
        ELSE IF hiddens = <<>> \/ conv_hiddens = <<>> THEN [err |-> "IndexError", obj |-> None]
        ELSE
          LET blocks_in_dim == Last(hiddens)
              block_out_dim == Last(conv_hiddens)
              blocks == BlocksOf(named["num_blocks"], hiddens, blocks_in_dim, block_out_dim)
          IN  [err |-> "ok",
               obj |-> Some(
                 [model_args |-> ModelArgsOf(named, kwargs),
                  activation |-> activation[1],
                  edge_encoder |-> <<named["edge_embedding_dim"]>> \o hiddens,
                  node_encoder |-> <<named["node_embedding_dim"]>> \o hiddens,
                  attr_encoder |-> <<named["attr_embedding_dim"]>> \o hiddens,
                  blocks |-> blocks,
                  block_out_dim |-> block_out_dim,
                  s2s |-> block_out_dim,
                  output_proj |-> <<OutputProjIn(block_out_dim)>> \o named["output_hiddens"] \o <<1>>,
                  dropout |-> DropoutOf(named["dropout"]),
                  is_classification |-> named["is_classification"],
                  graph_transformations |->
                      GraphTransformationsOf(named["graph_transformations"], named["num_blocks"]),
                  include_states |-> named["include_states"],
                  state_dict |-> [k \in StateKeys(Len(blocks)) |-> w0]])]

\* the arguments of a direct call: the parameters the model varies, the rest fixed
CallArgs(act, nb, h, ch, inc, dr, cls, gt, ad) ==
    [node_embedding_dim |-> EmbDim, edge_embedding_dim |-> EmbDim,
     attr_embedding_dim |-> ad, num_blocks |-> nb, hiddens |-> h, conv_hiddens |-> ch,
     s2s_num_layers |-> 1, s2s_num_iters |-> 1, output_hiddens |-> <<EmbDim>>,
     act |-> act, is_classification |-> cls, node_embed |-> None, edge_embed |-> None,
     attr_embed |-> None, include_states |-> inc, dropout |-> dr,
     graph_transformations |-> gt, element_types |-> None, cutoff |-> None,
     data_mean |-> None, data_std |-> None, device |-> None]

NoCall == [named |-> CallArgs("swish", 1, <<2>>, <<2>>, FALSE, None, TRUE, None, 2),
           kwargs |-> [k \in {} |-> "x"]]
NoEnv == [cuda |-> FALSE, mps |-> FALSE, model_dir |-> "", isdir |-> FALSE,
          has_pt |-> FALSE, file_ok |-> FALSE]

\* the constructor arguments each specification draws from
LifeArgs ==
    {CallArgs(act, nb, h, ch, FALSE, None, TRUE, None, 2) :
        act \in Acts, nb \in 0..MaxBlocks, h \in HiddenLists, ch \in {<<>>, <<3, 2>>}}
ForwardArgs ==
    {CallArgs("swish", nb, h, ch, inc, dr, cls, gt, ad) :
        nb \in 0..MaxBlocks, h \in HiddenLists, ch \in HiddenLists, inc \in BOOLEAN,
        dr \in Dropouts, cls \in BOOLEAN, gt \in GraphTransformLists, ad \in Widths}

\* model = MEGNet(**named, **kw), the first thing a caller does
Construct(ArgSet, KwSet, WSet) ==
    /\ op = "none"
    /\ \E named \in ArgSet, kw \in KwSet, w0 \in WSet :
        LET r == MEGNetInit(named, kw, w0)
        IN  /\ op' = "MEGNet"
            /\ err' = r.err
            /\ ctor_in' = [named |-> named, kwargs |-> kw]
            /\ model' = r.obj
    /\ UNCHANGED <<saved, loaded, env, loaded_from>>
    /\ UNCHANGED fwdVars
    /\ UNCHANGED convVars

(***************************************************************************)
(* as_dict, from_dict, from_dir, load                                      *)
(***************************************************************************)
\* lines 155-157; the dict holds the object's own model_args dict
AsDictOf(obj) == [state_dict |-> obj.state_dict, model_args |-> obj.model_args]

AsDict ==
    /\ model # None
    /\ op' = "as_dict"
    /\ err' = "ok"
    /\ saved' = Some(AsDictOf(model[1]))
    /\ UNCHANGED <<ctor_in, model, loaded, env, loaded_from>>
    /\ UNCHANGED fwdVars
    /\ UNCHANGED convVars

\* lines 164-167: the second assignment overwrites the first
DeviceOf(cuda, mps) ==
    LET device1 == IF cuda THEN "cuda" ELSE "cpu"
        device2 == IF mps THEN "mps" ELSE "cpu"
    IN  device2

\* line 168
WithDevice(model_args, device) == Merge(model_args, [device |-> Some(device)])

LoadStateDictSkipped(obj, state_dict) == [err |-> "ok", obj |-> Some(obj)]

\* line 170: load_state_dict with strict key matching
LoadStateDict(obj, state_dict) ==
    IF DOMAIN state_dict # DOMAIN obj.state_dict
    THEN [err |-> "RuntimeError", obj |-> None]
    ELSE [err |-> "ok", obj |-> Some([obj EXCEPT !.state_dict = state_dict])]

\* lines 160-171; returns the outcome, the model and the mutated model_args
FromDictOf(dict, cuda, mps, w0) ==
    LET args == WithDevice(dict.model_args, DeviceOf(cuda, mps))
        named == [k \in NamedParams |-> args[k]]
        kwargs == [k \in DOMAIN args \ NamedParams |-> args[k]]
        r == MEGNetInit(named, kwargs, w0)
        l == IF r.err = "ok" THEN LoadStateDict(r.obj[1], dict.state_dict) ELSE r
    IN  [err |-> l.err, obj |-> l.obj, model_args |-> args]

FromDict ==
    /\ saved # None
    /\ \E cuda \in BOOLEAN, mps \in BOOLEAN, w0 \in Weights :
        LET r == FromDictOf(saved[1], cuda, mps, w0)
        IN  /\ op' = "from_dict"
            /\ err' = r.err
            /\ loaded' = r.obj
            /\ env' = [NoEnv EXCEPT !.cuda = cuda, !.mps = mps]
            \* dict["model_args"] is the very dict the saved model holds
            /\ saved' = Some([saved[1] EXCEPT !.model_args = r.model_args])
            /\ model' = Some([model[1] EXCEPT !.model_args = r.model_args])
    /\ UNCHANGED <<ctor_in, loaded_from>>
    /\ UNCHANGED fwdVars
    /\ UNCHANGED convVars

\* lines 24-27
MODEL_PATHS ==
    [k \in {"MP-2018.6.1-Eform", "MP-2019.4.1-BandGap"} |-> <<"pretrained", k>>]

ModelDirs == {"MP-2018.6.1-Eform", "MP-2019.4.1-BandGap", "my_model", "elsewhere"}

\* state["model"] of a megnet.pt: the as_dict of a model saved earlier
FileDicts ==
    {AsDictOf(MEGNetInit(CallArgs(act, 2, <<3, 2>>, <<2>>, FALSE, None, FALSE, None, 2),
                         [k \in {} |-> "x"], 0).obj[1]) : act \in {"softplus2"}}

\* lines 174-185; file_ok: torch.load finds and reads path/megnet.pt
FromDirOf(path, file_ok, dict, cuda, mps, w0) ==
    IF ~file_ok THEN [err |-> "FileNotFoundError", obj |-> None, from |-> Some(path)]
    ELSE LET r == FromDictOf(dict, cuda, mps, w0)
         IN  [err |-> r.err, obj |-> r.obj, from |-> Some(path)]

LoadLocalFirst(model_dir, isdir, has_pt, file_ok, dict, cuda, mps, w0) ==
    IF isdir /\ has_pt
    THEN FromDirOf(<<"local", model_dir>>, TRUE, dict, cuda, mps, w0)
    ELSE IF model_dir \in DOMAIN MODEL_PATHS
    THEN FromDirOf(MODEL_PATHS[model_dir], file_ok, dict, cuda, mps, w0)
    ELSE [err |-> "ValueError", obj |-> None, from |-> None]

LoadFallback(model_dir, isdir, has_pt, file_ok, dict, cuda, mps, w0) ==
    IF model_dir \in DOMAIN MODEL_PATHS
    THEN FromDirOf(MODEL_PATHS[model_dir], file_ok, dict, cuda, mps, w0)
    ELSE IF isdir /\ has_pt
    THEN FromDirOf(<<"local", model_dir>>, TRUE, dict, cuda, mps, w0)
    ELSE FromDirOf(MODEL_PATHS["MP-2018.6.1-Eform"], file_ok, dict, cuda, mps, w0)

\* lines 188-202
LoadOf(model_dir, isdir, has_pt, file_ok, dict, cuda, mps, w0) ==
    IF model_dir \in DOMAIN MODEL_PATHS
    THEN FromDirOf(MODEL_PATHS[model_dir], file_ok, dict, cuda, mps, w0)
    ELSE IF isdir /\ has_pt
    THEN FromDirOf(<<"local", model_dir>>, TRUE, dict, cuda, mps, w0)
    ELSE [err |-> "ValueError", obj |-> None, from |-> None]

\* MEGNet.load(model_dir), the other way a caller starts
Load ==
    /\ op = "none"
    /\ \E model_dir \in ModelDirs, isdir \in BOOLEAN, has_pt \in BOOLEAN,
          file_ok \in BOOLEAN, dict \in FileDicts,
          cuda \in BOOLEAN, mps \in BOOLEAN, w0 \in Weights :
        LET r == LoadOf(model_dir, isdir, has_pt, file_ok, dict, cuda, mps, w0)
        IN  /\ has_pt => isdir
            /\ op' = "load"
            /\ err' = r.err
            /\ loaded' = r.obj
            /\ loaded_from' = r.from
            /\ env' = [cuda |-> cuda, mps |-> mps, model_dir |-> model_dir,
                       isdir |-> isdir, has_pt |-> has_pt, file_ok |-> file_ok]
    /\ UNCHANGED <<ctor_in, model, saved>>
    /\ UNCHANGED fwdVars
    /\ UNCHANGED convVars

Init ==
    /\ op = "none"
    /\ err = "ok"
    /\ ctor_in = NoCall
    /\ model = None
    /\ saved = None
    /\ loaded = None
    /\ env = NoEnv
    /\ loaded_from = None
    /\ pc = "idle"
    /\ trace = <<>>
    /\ graph = <<>>
    /\ feat = [edge |-> 0, node |-> 0, state |-> 0, src |-> -1]
    /\ vec = 0
    /\ blk = 0
    /\ entered = <<>>
    /\ conv_in = None
    /\ g = None
    /\ state_attr = None

(***************************************************************************)
(* MEGNet.forward, a stage at a time.  Features are followed by their      *)
(* width and by the block that produced them (src, -1 for the encoders);   *)
(* the graph by the transformations applied to it.  An embedding puts out  *)
(* its *_embedding_dim, an MLP the last of its dims, a MEGNetBlock the     *)
(* block_out_dim the constructor feeds to the Set2Set layers, and a        *)
(* Set2Set twice its input (the comment at line 141).                      *)
(***************************************************************************)
Event(stage, idx, gr, src) == [stage |-> stage, idx |-> idx, graph |-> gr, src |-> src]
Plain(stage) == Event(stage, -1, <<>>, -1)

MLPOut(dims) == Last(dims)
Set2SetOut(in_dim) == 2 * in_dim

\* line 228: Identity() hands the graph back, a transformation t leaves its mark
Transformed(gr, t) == IF t = 0 THEN gr ELSE Append(gr, t)

\* lines 220-225
EncodeStages(obj) ==
    <<Plain("edge_embed"), Plain("edge_encoder"), Plain("node_embed"), Plain("node_encoder"),
      Plain("attr_embed")>>
    \o (IF obj.include_states THEN <<>> ELSE <<Plain("attr_encoder")>>)

\* lines 220-225
EncodeWidths(obj) ==
    [edge |-> MLPOut(obj.edge_encoder),
     node |-> MLPOut(obj.node_encoder),
     state |-> IF obj.include_states THEN obj.attr_encoder[1] ELSE MLPOut(obj.attr_encoder),
     src |-> -1]

\* lines 219-225
FwdEncode ==
    /\ op = "MEGNet" /\ model # None /\ pc = "idle"
    /\ pc' = "blocks"
    /\ trace' = EncodeStages(model[1])
    /\ feat' = EncodeWidths(model[1])
    /\ graph' = <<>>
    /\ blk' = 0
    /\ vec' = 0
    /\ entered' = <<>>
    /\ UNCHANGED <<op, err>>
    /\ UNCHANGED lifeVars
    /\ UNCHANGED convVars

\* lines 228-229: the transformation, then the block on the transformed graph
BlockStages(gr_in, gr_out, i, src) ==
    <<Event("transform", i, gr_out, -1), Event("block", i, gr_out, src)>>

\* lines 227-230: one turn of the loop
FwdBlock ==
    /\ pc = "blocks" /\ blk < Len(model[1].blocks)
    /\ IF blk + 1 > Len(model[1].graph_transformations)
       THEN \* graph_transformations[i] is past the end of the list
            /\ pc' = "raised"
            /\ op' = "forward"
            /\ err' = "IndexError"
            /\ UNCHANGED <<trace, graph, feat, blk, entered>>
       ELSE LET gr == Transformed(graph, model[1].graph_transformations[blk + 1])
            IN  /\ graph' = gr
                /\ trace' = trace \o BlockStages(graph, gr, blk, feat.src)
                /\ feat' = [edge |-> model[1].block_out_dim,
                            node |-> model[1].block_out_dim,
                            state |-> model[1].block_out_dim,
                            src |-> blk]
                /\ blk' = blk + 1
                /\ entered' = Append(entered, [edge |-> feat.edge, node |-> feat.node,
                                               state |-> feat.state])
                /\ UNCHANGED <<pc, op, err>>
    /\ vec' = vec
    /\ UNCHANGED lifeVars
    /\ UNCHANGED convVars

\* lines 232-239: Set2Set on nodes, then on edges, the squeezes, the hstack
FwdPool ==
    /\ pc = "blocks" /\ blk = Len(model[1].blocks)
    /\ pc' = "dropout"
    /\ trace' = trace \o <<Event("node_s2s", -1, graph, feat.src),
                           Event("edge_s2s", -1, graph, feat.src),
                           Event("hstack_node_edge_state", -1, <<>>, feat.src)>>
    /\ vec' = Set2SetOut(feat.node) + Set2SetOut(feat.edge) + feat.state
    /\ UNCHANGED <<op, err, graph, feat, blk, entered>>
    /\ UNCHANGED lifeVars
    /\ UNCHANGED convVars

\* lines 241-242
FwdDropout ==
    /\ pc = "dropout"
    /\ pc' = "readout"
    /\ trace' = IF model[1].dropout # None THEN Append(trace, Plain("dropout")) ELSE trace
    /\ UNCHANGED <<op, err, graph, feat, vec, blk, entered>>
    /\ UNCHANGED lifeVars
    /\ UNCHANGED convVars

\* lines 244-248
FwdReadout ==
    /\ pc = "readout"
    /\ op' = "forward"
    /\ IF vec # model[1].output_proj[1]
       THEN /\ pc' = "raised"
            /\ err' = "RuntimeError"     \* the projection's first layer rejects the width
            /\ trace' = trace
       ELSE /\ pc' = "done"
            /\ err' = "ok"
            /\ trace' = trace \o <<Plain("output_proj")>>
                        \o (IF model[1].is_classification THEN <<Plain("sigmoid")>> ELSE <<>>)
    /\ UNCHANGED <<graph, feat, vec, blk, entered>>
    /\ UNCHANGED lifeVars
    /\ UNCHANGED convVars

(***************************************************************************)
(* GraphConverter.get_graph_from_processed_structure                       *)
(* A structure is the sequence of its sites' element symbols; site and     *)
(* node ids count from 0 as in the code, sequences from 1.                 *)
(***************************************************************************)
Symbols == {"Fe", "O"}
Structures == UNION {[1..n -> Symbols] : n \in 0..MaxSites}
ElementTypeLists == {<<"Fe", "O">>, <<"O", "Fe">>, <<"O">>, <<"Fe", "Fe", "O">>}
Images == {<<0, 0, 0>>, <<1, 0, -1>>}
Lattices == {<< <<2, 0, 0>>, <<0, 2, 0>>, <<0, 0, 2>> >>,
             << <<3, 0, 0>>, <<1, 3, 0>>, <<0, 0, 4>> >>}
BondLists(n) ==
    UNION {[1..m -> [src : 0..(n - 1), dst : 0..(n - 1), image : Images]] : m \in 0..MaxBonds}

HasSymbol(list, sym) == \E j \in 1..Len(list) : list[j] = sym

IndexOneBased(list, sym) ==
    CHOOSE j \in 1..Len(list) : list[j] = sym /\ \A q \in 1..(j - 1) : list[q] # sym

\* list.index(sym): the position, from 0, of the first occurrence
IndexOf(list, sym) == (CHOOSE j \in 1..Len(list) :
                          list[j] = sym /\ \A q \in 1..(j - 1) : list[q] # sym) - 1

\* torch.matmul of a row vector and a 3x3 matrix
MatMul(v, mat) == [c \in 1..3 |-> v[1] * mat[1][c] + v[2] * mat[2][c] + v[3] * mat[3][c]]

\* np.repeat(a, k, axis=0): every entry of a, k times over
Repeat(a, k) == [j \in 1..(Len(a) * k) |-> a[((j - 1) \div k) + 1]]

NodeDataNoType(structure, element_types, cart_coords) == [pos |-> cart_coords]

\* lines 56-59
NodeData(structure, element_types, cart_coords) ==
    [node_type |-> [j \in 1..Len(structure) |-> IndexOf(element_types, structure[j])],
     pos |-> cart_coords]

\* lines 52-55
EdgeData(images, lattice_matrix, num_edges) ==
    [pbc_offset |-> images,
     pbc_offshift |-> [k \in 1..Len(images) |-> MatMul(images[k], lattice_matrix[1])],
     lattice |-> Repeat(lattice_matrix, num_edges)]

\* lines 50-61
GetGraphOf(structure, src_id, dst_id, images, lattice_matrix, element_types, cart_coords) ==
    IF \E j \in 1..Len(structure) : ~HasSymbol(element_types, structure[j])
    THEN [err |-> "ValueError", g |-> None, state_attr |-> None]   \* list.index
    ELSE IF Len(structure) = 0
    THEN [err |-> "ValueError", g |-> None, state_attr |-> None]   \* np.hstack of nothing
    ELSE [err |-> "ok",
          g |-> Some([num_nodes |-> Len(structure),
                      u |-> src_id, v |-> dst_id,
                      edata |-> EdgeData(images, lattice_matrix, Len(src_id)),
                      ndata |-> NodeData(structure, element_types, cart_coords)]),
          state_attr |-> Some(<<0, 0>>)]

GetGraph ==
    /\ op = "none"
    /\ \E structure \in Structures, element_types \in ElementTypeLists, lat \in Lattices :
       \E bonds \in BondLists(Len(structure)) :
        LET src_id == [k \in 1..Len(bonds) |-> bonds[k].src]
            dst_id == [k \in 1..Len(bonds) |-> bonds[k].dst]
            images == [k \in 1..Len(bonds) |-> bonds[k].image]
            cart_coords == [j \in 1..Len(structure) |-> <<j, 0, 0>>]
            r == GetGraphOf(structure, src_id, dst_id, images, <<lat>>, element_types,
                            cart_coords)
        IN  /\ op' = "get_graph"
            /\ err' = r.err
            /\ conv_in' = Some([structure |-> structure, src_id |-> src_id,
                                dst_id |-> dst_id, images |-> images,
                                lattice_matrix |-> <<lat>>,
                                element_types |-> element_types])
            /\ g' = r.g
            /\ state_attr' = r.state_attr
    /\ UNCHANGED lifeVars
    /\ UNCHANGED fwdVars

(***************************************************************************)
(* MEGNetCalculator.forward                                                *)
(***************************************************************************)
\* line 275: the graph fields the call's arguments read, in evaluation order
CalcReads == [edata |-> {"edge_attr"}, ndata |-> {"node_type"}]

CalcForwardOf(gr) ==
    IF ~(CalcReads.edata \subseteq DOMAIN gr.edata) THEN "KeyError"
    ELSE IF ~(CalcReads.ndata \subseteq DOMAIN gr.ndata) THEN "KeyError"
    ELSE "ok"

\* calculator(g, state_attr) on the converter's graph
CalcForward ==
    /\ g # None
    /\ op' = "calc_forward"
    /\ err' = CalcForwardOf(g[1])
    /\ UNCHANGED lifeVars
    /\ UNCHANGED fwdVars
    /\ UNCHANGED convVars

Next ==
    \/ Construct(LifeArgs, KwargSets, Weights)
    \/ AsDict
    \/ FromDict
    \/ Load
    \/ GetGraph
    \/ CalcForward

Spec == Init /\ [][Next]_vars

NextGraph ==
    \/ GetGraph
    \/ CalcForward

SpecGraph == Init /\ [][NextGraph]_vars

NextForward ==
    \/ Construct(ForwardArgs, {[k \in {} |-> "x"]}, {0})
    \/ FwdEncode
    \/ FwdBlock
    \/ FwdPool
    \/ FwdDropout
    \/ FwdReadout

SpecForward == Init /\ [][NextForward]_vars
(***************************************************************************)
(* Properties of the constructor, as_dict, from_dict and load (Spec)       *)
(***************************************************************************)
FourActs == {"swish", "sigmoid", "tanh", "softplus2"}
MatchingActivation ==
    [swish |-> "SiLU", sigmoid |-> "Sigmoid", tanh |-> "Tanh", softplus2 |-> "SoftPlus2"]

\* C1: the constructor raises its activation error exactly when act is none of the
\* four names; for each of the four it selects the matching activation and does not
\* raise on account of act; and whenever it raises, no model object is returned.
C1_ActivationSelected ==
    op = "MEGNet" =>
        LET act == ctor_in.named["act"]
        IN  /\ (err = "Exception") <=> (act \notin FourActs)
            /\ act \notin FourActs => err # "ok"
            /\ (act \in FourActs /\ err = "ok") =>
                    model # None /\ model[1].activation = MatchingActivation[act]
            /\ err # "ok" => model = None

C1_Witness ==
    /\ op = "MEGNet" /\ err = "Exception" /\ model = None
    /\ ctor_in.named["act"] = "relu"

\* C2 (as claimed): no operation other than the constructor ends in an error, for
\* any model_dir given to load (the megnet.pt files being readable) and for any
\* structure and element_types given to the converter.
C2_OnlyErrorPath ==
    (/\ op \in {"load", "from_dict", "as_dict", "get_graph", "calc_forward"}
     /\ op = "load" => env.file_ok)
        => err = "ok"

Resolvable(e) == e.model_dir \in DOMAIN MODEL_PATHS \/ (e.isdir /\ e.has_pt)

\* C2 (amended): the constructor's raise is not the only error path. load ends in
\* ValueError when model_dir is neither a key of MODEL_PATHS nor an existing
\* directory holding megnet.pt, and in an error when the resolved megnet.pt cannot
\* be read; the converter ends in ValueError when a site's symbol is missing from
\* element_types or the structure is empty; MEGNetCalculator.forward ends in
\* KeyError on the converter's graph. as_dict, and from_dict of the as_dict of a
\* constructed model, end without error.
C2_ErrorPaths ==
    /\ op = "load" =>
        /\ (err = "ValueError") <=> ~Resolvable(env)
        /\ (Resolvable(env) /\ env.model_dir \in DOMAIN MODEL_PATHS /\ ~env.file_ok) =>
                err = "FileNotFoundError"
    /\ op = "get_graph" =>
        LET in == conv_in[1]
        IN  (err = "ValueError") <=>
                \/ Len(in.structure) = 0
                \/ \E j \in 1..Len(in.structure) :
                        \A q \in 1..Len(in.element_types) :
                            in.element_types[q] # in.structure[j]
    /\ op = "calc_forward" => err = "KeyError"
    /\ op \in {"as_dict", "from_dict"} => err = "ok"

C2_Witness ==
    /\ op = "load" /\ err = "ValueError" /\ loaded = None
    /\ env.model_dir = "elsewhere" /\ env.isdir /\ ~env.has_pt

\* C5: load resolves model_dir in a fixed order: a key of MODEL_PATHS loads from the
\* pretrained path of that key, even when a local directory of that name holds
\* megnet.pt; otherwise an existing directory holding megnet.pt loads from that
\* directory; otherwise ValueError and nothing is loaded. Exactly one of the three.
C5_LoadResolution ==
    op = "load" =>
        LET md == env.model_dir
            key == md \in {"MP-2018.6.1-Eform", "MP-2019.4.1-BandGap"}
            local == env.isdir /\ env.has_pt
        IN  /\ key => loaded_from = Some(<<"pretrained", md>>) /\ err # "ValueError"
            /\ (~key /\ local) => loaded_from = Some(<<"local", md>>) /\ err # "ValueError"
            /\ (~key /\ ~local) =>
                    loaded_from = None /\ err = "ValueError" /\ loaded = None
            /\ (loaded # None) => (err = "ok" /\ loaded_from # None)

C5_Witness ==
    /\ op = "load" /\ err = "ok" /\ loaded # None
    /\ env.model_dir = "MP-2018.6.1-Eform" /\ env.isdir /\ env.has_pt
    /\ loaded_from = Some(<<"pretrained", "MP-2018.6.1-Eform">>)

DeviceByAvailability(cuda, mps) == IF cuda THEN "cuda" ELSE IF mps THEN "mps" ELSE "cpu"

\* C6: from_dict builds the model on the available accelerator: the device written
\* into model_args is cuda whenever cuda is available, mps when only mps is, and
\* cpu only when neither is.
C6_DeviceByAvailability ==
    (op = "from_dict" /\ err = "ok") =>
        /\ loaded[1].model_args["device"] = Some(DeviceByAvailability(env.cuda, env.mps))
        /\ saved[1].model_args["device"] = Some(DeviceByAvailability(env.cuda, env.mps))

\* C7: the stored model_args are exactly the named constructor parameters (without
\* self, __class__, kwargs) plus the extra keyword arguments, with the values passed;
\* from_dict(m.as_dict()) succeeds and returns a model whose model_args equal the ones
\* m was constructed with on every key but "device" and whose state_dict is m's.
C7_RoundTrip ==
    LET given == Merge(ctor_in.named, ctor_in.kwargs)
    IN  /\ model # None =>
            /\ DOMAIN model[1].model_args = NamedParams \cup DOMAIN ctor_in.kwargs
            /\ \A k \in DOMAIN given \ {"device"} : model[1].model_args[k] = given[k]
        /\ (op = "MEGNet" /\ model # None) => model[1].model_args = given
        /\ saved # None => saved[1].state_dict = model[1].state_dict
        /\ op = "from_dict" =>
            /\ err = "ok" /\ loaded # None
            /\ DOMAIN loaded[1].model_args = DOMAIN given
            /\ \A k \in DOMAIN given \ {"device"} : loaded[1].model_args[k] = given[k]
            /\ loaded[1].state_dict = model[1].state_dict

C7_Witness ==
    /\ op = "from_dict" /\ err = "ok"
    /\ DOMAIN ctor_in.kwargs = {"note"}
    /\ loaded[1].model_args["note"] = "x"
    /\ \A k \in DOMAIN loaded[1].state_dict : loaded[1].state_dict[k] = 1
    /\ Cardinality(DOMAIN loaded[1].state_dict) = 8

(***************************************************************************)
(* Properties of the converter and of the calculator's reads (SpecGraph)   *)
(***************************************************************************)
\* C3 (as claimed): every field MEGNetCalculator.forward reads from the graph is a
\* field the converter set on the graph it returned.
C3_Consumable ==
    g # None =>
        /\ CalcReads.edata \subseteq DOMAIN g[1].edata
        /\ CalcReads.ndata \subseteq DOMAIN g[1].ndata

\* C3 (amended): of the fields MEGNetCalculator.forward reads, the converter sets
\* node_type and does not set edge_attr: it sets exactly pbc_offset, pbc_offshift and
\* lattice on the edges and node_type and pos on the nodes, so the calculator's
\* forward on the returned graph ends in KeyError until the caller adds edge_attr.
C3_FieldsSet ==
    g # None =>
        /\ DOMAIN g[1].edata = {"pbc_offset", "pbc_offshift", "lattice"}
        /\ DOMAIN g[1].ndata = {"node_type", "pos"}
        /\ CalcReads.ndata \subseteq DOMAIN g[1].ndata
        /\ CalcReads.edata \cap DOMAIN g[1].edata = {}
        /\ op = "calc_forward" => err = "KeyError"

C3_Witness == g # None /\ op = "calc_forward" /\ err = "KeyError"

GraphAsClaimed(in, gr, sa) ==
    LET n == Len(in.structure)
        m == Len(in.src_id)
    IN  /\ gr # None /\ sa = Some(<<0, 0>>)
        /\ gr[1].num_nodes = n
        /\ Len(gr[1].u) = m /\ Len(gr[1].v) = m
        /\ Len(gr[1].edata.pbc_offset) = m /\ Len(gr[1].edata.lattice) = m
        /\ \A k \in 1..m :
            /\ gr[1].u[k] = in.src_id[k] /\ gr[1].v[k] = in.dst_id[k]
            /\ gr[1].edata.pbc_offset[k] = in.images[k]
            /\ gr[1].edata.lattice[k] = in.lattice_matrix[1]
        /\ Len(gr[1].ndata.node_type) = n
        /\ \A j \in 1..n :
            /\ gr[1].ndata.node_type[j] \in 0..(Len(in.element_types) - 1)
            /\ in.element_types[gr[1].ndata.node_type[j] + 1] = in.structure[j]
            /\ \A q \in 1..gr[1].ndata.node_type[j] : in.element_types[q] # in.structure[j]

SymbolsListed(in) ==
    \A j \in 1..Len(in.structure) :
        \E q \in 1..Len(in.element_types) : in.element_types[q] = in.structure[j]

BlockEvents == {j \in 1..Len(trace) : trace[j].stage = "block"}

Min(a, b) == IF a < b THEN a ELSE b
\* the graph once the first k transformations of ts have been applied, in order
GraphAfter(ts, k) == SelectSeq(SubSeq(ts, 1, Min(k, Len(ts))), LAMBDA t : t # 0)

ExpectedLoop(ts, n) ==
    [j \in 1..(2 * n) |->
        IF j % 2 = 1
        THEN Event("transform", (j - 1) \div 2, GraphAfter(ts, (j + 1) \div 2), -1)
        ELSE Event("block", (j \div 2) - 1, GraphAfter(ts, j \div 2), (j \div 2) - 2)]

ExpectedTrace(cfg, ts, n) ==
    <<Plain("edge_embed"), Plain("edge_encoder"), Plain("node_embed"), Plain("node_encoder"),
      Plain("attr_embed")>>
    \o (IF cfg["include_states"] THEN <<>> ELSE <<Plain("attr_encoder")>>)
    \o ExpectedLoop(ts, n)
    \o <<Event("node_s2s", -1, GraphAfter(ts, n), n - 1),
         Event("edge_s2s", -1, GraphAfter(ts, n), n - 1),
         Event("hstack_node_edge_state", -1, <<>>, n - 1)>>
    \o (IF cfg["dropout"] \notin {None, Some(0)} THEN <<Plain("dropout")>> ELSE <<>>)
    \o <<Plain("output_proj")>>
    \o (IF cfg["is_classification"] THEN <<Plain("sigmoid")>> ELSE <<>>)

IsPrefix(s, t) == Len(s) <= Len(t) /\ \A j \in 1..Len(s) : s[j] = t[j]

\* C9: forward runs its stages once each in the fixed order: embedding and encoding
\* (the state encoder skipped exactly when include_states), then for i = 0, 1, ...
\* transformation i before block i, block i on the transformed graph and on the
\* features block i-1 put out, the graph carried on; then the pooling on the last
\* graph and features, the hstack in the order node, edge, state, dropout exactly
\* when a non-zero dropout was configured, the readout, and a sigmoid exactly when
\* is_classification. A pass that ends has run every block.
C9_StageOrder ==
    (model # None /\ pc # "idle") =>
        LET expected == ExpectedTrace(ctor_in.named, model[1].graph_transformations,
                                      Len(model[1].blocks))
        IN  /\ IsPrefix(trace, expected)
            /\ pc = "done" => trace = expected
            /\ pc = "blocks" => Len(trace) = Len(EncodeStages(model[1])) + 2 * blk
            /\ pc = "done" =>
                  \A i \in 0..(Len(model[1].blocks) - 1) :
                      Cardinality({j \in BlockEvents : trace[j].idx = i}) = 1

C9_Witness ==
    /\ pc = "done" /\ err = "ok"
    /\ Len(model[1].blocks) = 2 /\ graph = <<1, 2>>
    /\ ~ctor_in.named["include_states"]
    /\ ctor_in.named["dropout"] = Some(5)
    /\ ctor_in.named["is_classification"]
    /\ Len(trace) = 16
    /\ trace[14].stage = "dropout"
    /\ trace[15].stage = "output_proj" /\ trace[16].stage = "sigmoid"

====
